---- MODULE Spec2Model ----
(***************************************************************************)
(* tasks-buddy: the three task endpoints (create, list, complete), the     *)
(* Gemini field extraction they call and the Firestore CRUD layer below    *)
(* them, as a state machine.  A request is a coroutine: it is cut into     *)
(* steps at the awaits that reach an external service (the model call and  *)
(* the Firestore calls), and the synchronous code between two awaits is    *)
(* part of the step that ends at the later one.                            *)
(***************************************************************************)
EXTENDS Integers, Sequences, FiniteSets, TLC

\* ---------------------------------------------------------------- bounds
\* documents created while all three endpoints are served (Spec)
MaxTasks == 2
\* documents created while the creation pipeline is explored over its whole
\* input space (NormalizeSpec)
MaxNormalized == 1
\* documents created while creation and listing are explored (RankSpec)
MaxRanked == 3
\* readings of datetime.now(timezone.utc)
MaxClock == 1
MaxRaced == 1

Procs == {1, 2}
Users == {"u1", "u2"}

\* ------------------------------------------------------- python values
\* None, and a key that is absent from a JSON object
None == "<None>"
Absent == "<absent>"

\* A datetime: an instant and whether tzinfo is set.  tz = "none" is None.
NoDeadline == [ts |-> 0, tz |-> "none"]
Naive(t) == [ts |-> t, tz |-> "naive"]
Utc(t) == [ts |-> t, tz |-> "utc"]

\* truthiness of a datetime-or-None (a datetime is always truthy)
HasDeadline(d) == d.tz # "none"

\* truthiness of a str-or-None
Truthy(s) == s # None /\ s # ""

\* ---------------------------------------------------------------- text
\* A str is a sequence of characters; str.lower() maps each character.
LowerChar(c) ==
    CASE c = "U" -> "u"
      [] c = "R" -> "r"
      [] c = "X" -> "x"
      [] OTHER -> c

lower(s) == [i \in DOMAIN s |-> LowerChar(s[i])]

\* python `k in s` for two str
Contains(k, s) ==
    \E i \in 0..(Len(s) - Len(k)) : SubSeq(s, i + 1, i + Len(k)) = k

\* ---------------------------------------------------- field extraction
\* What the model call produced.  kind:
\*   api_error      generate_content_async raised
\*   no_candidates  response.candidates is empty
\*   no_parts       candidates[0].content.parts is empty
\*   empty          the text is empty once the fence is stripped
\*   non_json       the text does not start with "{"
\*   malformed_json json.loads raised JSONDecodeError
\*   bad_types      a JSON object ProcessedTaskData rejects (ValidationError)
\*   json           a JSON object, in data
FailureKinds ==
    {"api_error", "no_candidates", "no_parts", "empty", "non_json",
     "malformed_json", "bad_types"}

NoData ==
    [processed_description |-> <<>>, deadline |-> [ts |-> 0, fmt |-> "null"],
     tags |-> <<>>, priority_suggestion |-> Absent]

Failure(k) == [kind |-> k, data |-> NoData]
Json(d) == [kind |-> "json", data |-> d]

\* The deadline of the JSON object: null, "...Z", an ISO string without an
\* offset, or a string datetime.fromisoformat rejects.
parse_deadline(deadline_str) ==
    CASE deadline_str.fmt = "Z" -> Utc(deadline_str.ts)
      [] deadline_str.fmt = "naive" -> Utc(deadline_str.ts)
      [] OTHER -> NoDeadline

fallback(raw_input) ==
    [processed_description |-> raw_input, deadline |-> NoDeadline,
     tags |-> <<>>, priority_suggestion |-> "Medium", raised |-> FALSE]

\* process_raw_task_input without the last except clause: a JSON object that
\* ProcessedTaskData rejects escapes as an exception
process_raw_task_input_raises(raw_input, r) ==
    IF r.kind = "bad_types"
    THEN [fallback(raw_input) EXCEPT !.raised = TRUE]
    ELSE IF r.kind # "json"
    THEN fallback(raw_input)
    ELSE [processed_description |-> r.data.processed_description,
          deadline |-> parse_deadline(r.data.deadline),
          tags |-> r.data.tags,
          priority_suggestion |->
              IF r.data.priority_suggestion = Absent
              THEN "Medium" ELSE r.data.priority_suggestion,
          raised |-> FALSE]

\* process_raw_task_input: the ProcessedTaskData it returns; raised is TRUE
\* when the call ends in an exception instead.
process_raw_task_input(raw_input, r) ==
    IF r.kind # "json"
    THEN fallback(raw_input)
    ELSE [processed_description |-> r.data.processed_description,
          deadline |-> parse_deadline(r.data.deadline),
          tags |-> r.data.tags,
          priority_suggestion |->
              IF r.data.priority_suggestion = Absent
              THEN "Medium" ELSE r.data.priority_suggestion,
          raised |-> FALSE]

\* ------------------------------------------------------- normalization
\* create_new_task step 2: the mandatory-deadline check
deadline_missing(t_in, pd) == ~HasDeadline(t_in.deadline) /\ ~HasDeadline(pd.deadline)

\* create_new_task step 3: the keyword boost
keyword_match(rawInput, keywords) ==
    \E i \in DOMAIN keywords : Contains(keywords[i], lower(rawInput))

final_priority(rawInput, pd, keywords) ==
    IF keyword_match(rawInput, keywords) THEN "High"
    ELSE IF Truthy(pd.priority_suggestion) THEN pd.priority_suggestion
    ELSE "Medium"

\* create_task with the two sources of the deadline tried in the other order
final_deadline_ai_first(t_in, pd) ==
    IF HasDeadline(pd.deadline) THEN pd.deadline
    ELSE IF HasDeadline(t_in.deadline) THEN t_in.deadline
    ELSE NoDeadline

\* create_task: the deadline it stores (None where it raises ValueError)
final_deadline(t_in, pd) ==
    IF HasDeadline(t_in.deadline) THEN t_in.deadline
    ELSE IF HasDeadline(pd.deadline) THEN pd.deadline
    ELSE NoDeadline

\* tzinfo is None => replace(tzinfo=timezone.utc)
ensure_utc(d) == IF d.tz = "naive" THEN Utc(d.ts) ELSE d

\* create_task storing the extracted deadline instead of the resolved one
new_task_data_ai_deadline(user_id, t_in, pd, timestamp) ==
    [userId |-> user_id,
     originalInput |-> t_in.rawInput,
     processedDescription |->
         IF pd.processed_description # <<>> THEN pd.processed_description
         ELSE t_in.rawInput,
     priority |->
         IF Truthy(pd.priority_suggestion) THEN pd.priority_suggestion ELSE "Medium",
     tags |-> pd.tags,
     deadline |-> ensure_utc(pd.deadline),
     createdAt |-> timestamp,
     updatedAt |-> timestamp,
     completed |-> FALSE]

\* create_task: TaskInDB(...).model_dump(exclude_none=True)
new_task_data(user_id, t_in, pd, timestamp) ==
    [userId |-> user_id,
     originalInput |-> t_in.rawInput,
     processedDescription |->
         IF pd.processed_description # <<>> THEN pd.processed_description
         ELSE t_in.rawInput,
     priority |->
         IF Truthy(pd.priority_suggestion) THEN pd.priority_suggestion ELSE "Medium",
     tags |-> pd.tags,
     deadline |-> ensure_utc(final_deadline(t_in, pd)),
     createdAt |-> timestamp,
     updatedAt |-> timestamp,
     completed |-> FALSE]

\* except clauses without the one for ConnectionError
create_new_task_except_no_connection_clause(exc) ==
    CASE exc = "ValueError" -> 400
      [] OTHER -> 500

\* the except clauses of create_new_task, by the class of what was raised
create_new_task_except(exc) ==
    CASE exc = "ConnectionError" -> 503
      [] exc = "ValueError" -> 400
      [] OTHER -> 500

\* create_new_task after the extraction: [exc, doc].  exc = "" is the path
\* that reaches tasks_collection.add(doc).
create_new_task_body(user_id, t_in, pd, keywords, dbOk, timestamp) ==
    LET boosted == [pd EXCEPT !.priority_suggestion =
                        final_priority(t_in.rawInput, pd, keywords)]
        doc == new_task_data(user_id, t_in, boosted, timestamp)
    IN  IF pd.raised THEN [exc |-> "Exception", doc |-> doc]
        ELSE IF deadline_missing(t_in, pd) THEN [exc |-> "HTTPException", doc |-> doc]
        ELSE IF ~dbOk THEN [exc |-> "ConnectionError", doc |-> doc]
        ELSE IF ~HasDeadline(final_deadline(t_in, boosted))
             THEN [exc |-> "ValueError", doc |-> doc]
        ELSE [exc |-> "", doc |-> doc]

\* --------------------------------------------------------------- ranking
\* TaskRead(id=..., **task_data): the stored fields and the document id
TaskRead(id, task_data) == [id |-> id] @@ task_data

\* TaskRead(**task_data) raises ValidationError when deadline is missing
\* (TaskBase.deadline is mandatory); pydantic's ValidationError is a ValueError
TaskRead_valid(task_data) == HasDeadline(task_data.deadline)

priority_order(priority) ==
    CASE priority = "High" -> 1
      [] priority = "Medium" -> 2
      [] priority = "Low" -> 3
      [] OTHER -> 99

\* sort_key with the creation time ascending
sort_key_created_ascending(task) ==
    << priority_order(task.priority),
       IF HasDeadline(task.deadline) THEN 0 ELSE 1,
       IF HasDeadline(task.deadline) THEN task.deadline.ts ELSE 0,
       task.createdAt >>

\* (prio_value, deadline_timestamp, -created_timestamp); float('inf') is the
\* pair <<1, 0>>, above every finite timestamp <<0, ts>>
sort_key(task) ==
    << priority_order(task.priority),
       IF HasDeadline(task.deadline) THEN 0 ELSE 1,
       IF HasDeadline(task.deadline) THEN task.deadline.ts ELSE 0,
       0 - task.createdAt >>

\* python's comparison of two tuples of the same length
RECURSIVE TupleLess(_, _)
TupleLess(a, b) ==
    IF a = <<>> THEN FALSE
    ELSE IF Head(a) # Head(b) THEN Head(a) < Head(b)
    ELSE TupleLess(Tail(a), Tail(b))

\* list.sort(key=sort_key): stable, so an element goes after the elements
\* already placed whose key is not greater
Insert(x, s) ==
    LET n == Cardinality({i \in DOMAIN s : ~TupleLess(sort_key(x), sort_key(s[i]))})
    IN  SubSeq(s, 1, n) \o <<x>> \o SubSeq(s, n + 1, Len(s))

RECURSIVE Sort(_)
Sort(s) ==
    IF s = <<>> THEN <<>>
    ELSE Insert(s[Len(s)], Sort(SubSeq(s, 1, Len(s) - 1)))

\* the orders in which tasks_ref.stream() may yield the documents S
Orders(S) ==
    {o \in [1..Cardinality(S) -> S] : \A i, j \in DOMAIN o : i # j => o[i] # o[j]}

RECURSIVE Parse(_, _)
\* the loop over the stream: documents TaskRead rejects are logged and skipped
Parse(docs, order) ==
    IF order = <<>> THEN <<>>
    ELSE (IF TaskRead_valid(docs[Head(order)])
          THEN <<TaskRead(Head(order), docs[Head(order)])>> ELSE <<>>)
         \o Parse(docs, Tail(order))

\* the stream of the whole collection, without the filter
where_userId_unfiltered(docs, user_id) == DOMAIN docs

\* tasks_collection.where(filter=FieldFilter("userId", "==", user_id))
where_userId(docs, user_id) == {i \in DOMAIN docs : docs[i].userId = user_id}

\* get_tasks_for_user, for one order of the stream
get_tasks_for_user(docs, order) == Sort(Parse(docs, order))

\* ------------------------------------------------------------ completion
\* the endpoint without its ownership test
not_owner_unchecked(task_data, user_id) == FALSE

\* update_task_completion (endpoint): the ownership test before the update
not_owner(task_data, user_id) == task_data.userId # user_id

\* an update that also rewrites the creation time
task_ref_update_touching_created(task_data, completed, timestamp) ==
    [task_data EXCEPT !.completed = completed, !.updatedAt = timestamp,
                      !.createdAt = timestamp + 1]

\* update_task_completion (crud): the two fields task_ref.update writes
task_ref_update(task_data, completed, timestamp) ==
    [task_data EXCEPT !.completed = completed, !.updatedAt = timestamp]

\* the except clauses of update_task_completion (endpoint)
update_task_completion_except(exc) ==
    CASE exc = "ConnectionError" -> 503
      [] exc = "ValueError" -> 404
      [] OTHER -> 500

\* ------------------------------------------------------------------ state
VARIABLES
    db,                     \* crud.task_crud.db is a client (FALSE: None)
    high_priority_keywords, \* settings.high_priority_keywords
    store,                  \* the tasks collection: document id -> fields
    added,                  \* ids of the documents create_task added
    now,                    \* datetime.now(timezone.utc)
    op,                     \* per request slot: the endpoint being served
    pc,                     \* ... the await it is suspended at
    current_user_id,        \* ... Depends(get_current_user)
    task_in,                \* ... TaskCreate body
    ai_response,            \* ... what the model call produced
    processed_data,         \* ... ProcessedTaskData
    task_id,                \* ... path parameter of PUT /{task_id}/complete
    completed_status,       \* ... completed_data.get("completed")
    status,                 \* ... HTTP status of the response (0: none yet)
    response                \* ... the TaskRead list of the response

vars ==
    <<db, high_priority_keywords, store, added, now, op, pc, current_user_id,
      task_in, ai_response, processed_data, task_id, completed_status, status,
      response>>

config == <<db, high_priority_keywords>>

\* a bearer token verify_id_token rejects
BadToken == "bad"

NoBody == [rawInput |-> <<>>, deadline |-> NoDeadline]
NoResponse == Failure("none")
NoCompleted == [present |-> FALSE, value |-> FALSE]

\* A document an earlier draft of create_task wrote, when the deadline was
\* still optional.
LegacyDoc(u) ==
    [userId |-> u, originalInput |-> <<"x">>, processedDescription |-> <<"x">>,
     priority |-> "Medium", tags |-> <<>>, deadline |-> NoDeadline,
     createdAt |-> 0, updatedAt |-> 0, completed |-> FALSE]

\* HIGH_PRIORITY_KEYWORDS as shipped (lower case), and as an operator may set it
DefaultKeywords == << <<"u", "r">>, <<"a", "s">> >>
KeywordConfigs == {DefaultKeywords, << <<"U", "r">> >>}

InitWith(dbs, keywordConfigs, stores) ==
    /\ db \in dbs
    /\ high_priority_keywords \in keywordConfigs
    /\ store \in stores
    /\ added = {}
    /\ now = 0
    /\ op = [p \in Procs |-> "none"]
    /\ pc = [p \in Procs |-> "idle"]
    /\ current_user_id = [p \in Procs |-> BadToken]
    /\ task_in = [p \in Procs |-> NoBody]
    /\ ai_response = [p \in Procs |-> NoResponse]
    /\ processed_data = [p \in Procs |-> fallback(<<>>)]
    /\ task_id = [p \in Procs |-> 0]
    /\ completed_status = [p \in Procs |-> NoCompleted]
    /\ status = [p \in Procs |-> 0]
    /\ response = [p \in Procs |-> <<>>]

\* a request arrives on slot p with these locals; those of the slot's last
\* request are gone
Arrive(p, endpoint, token, body, id, completed) ==
    /\ pc[p] \in {"idle", "done"}
    /\ op' = [op EXCEPT ![p] = endpoint]
    /\ current_user_id' = [current_user_id EXCEPT ![p] = token]
    /\ task_in' = [task_in EXCEPT ![p] = body]
    /\ task_id' = [task_id EXCEPT ![p] = id]
    /\ completed_status' = [completed_status EXCEPT ![p] = completed]
    /\ ai_response' = [ai_response EXCEPT ![p] = NoResponse]
    /\ processed_data' = [processed_data EXCEPT ![p] = fallback(<<>>)]

\* slot p goes on to its next await
Await(p, label) ==
    /\ pc' = [pc EXCEPT ![p] = label]
    /\ status' = [status EXCEPT ![p] = 0]
    /\ response' = [response EXCEPT ![p] = <<>>]

\* the response of slot p
Respond(p, code, body) ==
    /\ pc' = [pc EXCEPT ![p] = "done"]
    /\ status' = [status EXCEPT ![p] = code]
    /\ response' = [response EXCEPT ![p] = body]

\* get_current_user raised: 401 before the endpoint's body runs
Unauthenticated(p, endpoint) ==
    /\ Arrive(p, endpoint, BadToken, NoBody, 0, NoCompleted)
    /\ Respond(p, 401, <<>>)

\* ------------------------------------------------------------ POST /tasks
\* get_current_user, then create_new_task up to the await of the model call
create_new_task(p, users, bodies, cap) ==
    /\ Cardinality(added) < cap
    /\ \/ Unauthenticated(p, "create")
       \/ \E user \in users, body \in bodies :
            /\ Arrive(p, "create", user, body, 0, NoCompleted)
            /\ Await(p, "ai")
    /\ UNCHANGED <<config, store, added, now>>

\* the model call returns and process_raw_task_input builds its result
create_new_task_extract(p, responses) ==
    /\ op[p] = "create" /\ pc[p] = "ai"
    /\ \E r \in responses :
        /\ ai_response' = [ai_response EXCEPT ![p] = r]
        /\ processed_data' =
               [processed_data EXCEPT ![p] = process_raw_task_input(task_in[p].rawInput, r)]
    /\ pc' = [pc EXCEPT ![p] = "save"]
    /\ UNCHANGED <<config, store, added, now, op, current_user_id, task_in,
                   task_id, completed_status, status, response>>

\* create_new_task steps 2-4 and create_task, to the response
create_new_task_save(p, cap) ==
    /\ op[p] = "create" /\ pc[p] = "save"
    /\ LET out == create_new_task_body(current_user_id[p], task_in[p], processed_data[p],
                                       high_priority_keywords, db, now)
           id == Len(store) + 1
       IN  IF out.exc # ""
           THEN /\ Respond(p, create_new_task_except(out.exc), <<>>)
                /\ UNCHANGED <<store, added>>
           ELSE /\ Cardinality(added) < cap
                /\ store' = Append(store, out.doc)
                /\ added' = added \cup {id}
                /\ Respond(p, 201, <<TaskRead(id, out.doc)>>)
    /\ UNCHANGED <<config, now, op, current_user_id, task_in, ai_response,
                   processed_data, task_id, completed_status>>

\* ------------------------------------------------------------- GET /tasks
\* get_current_user, then read_user_tasks: the stream and the sort
read_user_tasks(p, users) ==
    /\ \/ Unauthenticated(p, "list")
       \/ \E user \in users :
            /\ Arrive(p, "list", user, NoBody, 0, NoCompleted)
            /\ IF ~db
               THEN Respond(p, 503, <<>>)
               ELSE \E order \in Orders(where_userId(store, user)) :
                        Respond(p, 200, get_tasks_for_user(store, order))
    /\ UNCHANGED <<config, store, added, now>>

\* ------------------------------------------- PUT /tasks/{task_id}/complete
\* get_current_user, then update_task_completion up to the await of get_task
update_task_completion(p, users, ids, bodies) ==
    /\ \/ Unauthenticated(p, "complete")
       \/ \E user \in users, id \in ids, body \in bodies :
            /\ Arrive(p, "complete", user, NoBody, id, body)
            /\ IF ~body.present THEN Respond(p, 400, <<>>) ELSE Await(p, "fetch")
    /\ UNCHANGED <<config, store, added, now>>

\* get_task returns; the existence and ownership checks on the snapshot
update_task_completion_fetch(p) ==
    /\ op[p] = "complete" /\ pc[p] = "fetch"
    /\ LET exc == IF ~db THEN "ConnectionError"
                  ELSE IF task_id[p] \notin DOMAIN store THEN "HTTPException"
                  ELSE IF not_owner(store[task_id[p]], current_user_id[p])
                       THEN "HTTPException"
                  ELSE ""
       IN  IF exc # ""
           THEN Respond(p, update_task_completion_except(exc), <<>>)
           ELSE Await(p, "update")
    /\ UNCHANGED <<config, store, added, now, op, current_user_id, task_in,
                   ai_response, processed_data, task_id, completed_status>>

\* an update that gives way to a request already past its own update
update_task_completion_update_first_wins(p) ==
    /\ op[p] = "complete" /\ pc[p] = "update"
    /\ store' = IF \E q \in Procs \ {p} :
                       /\ op[q] = "complete" /\ pc[q] = "reread"
                       /\ task_id[q] = task_id[p]
                 THEN store
                 ELSE [store EXCEPT ![task_id[p]] =
                          task_ref_update(@, completed_status[p].value, now)]
    /\ pc' = [pc EXCEPT ![p] = "reread"]
    /\ UNCHANGED <<config, added, now, op, current_user_id, task_in, ai_response,
                   processed_data, task_id, completed_status, status, response>>

\* task_ref.update({"completed": completed, "updatedAt": now})
update_task_completion_update(p) ==
    /\ op[p] = "complete" /\ pc[p] = "update"
    /\ store' = [store EXCEPT ![task_id[p]] =
                     task_ref_update(@, completed_status[p].value, now)]
    /\ pc' = [pc EXCEPT ![p] = "reread"]
    /\ UNCHANGED <<config, added, now, op, current_user_id, task_in, ai_response,
                   processed_data, task_id, completed_status, status, response>>

\* a response built from the update itself instead of the second get
update_task_completion_reread_echo(p) ==
    /\ op[p] = "complete" /\ pc[p] = "reread"
    /\ IF TaskRead_valid(store[task_id[p]])
       THEN Respond(p, 200,
                    <<TaskRead(task_id[p],
                               [store[task_id[p]] EXCEPT
                                    !.completed = completed_status[p].value])>>)
       ELSE Respond(p, update_task_completion_except("ValueError"), <<>>)
    /\ UNCHANGED <<config, store, added, now, op, current_user_id, task_in,
                   ai_response, processed_data, task_id, completed_status>>

\* task_ref.get() after the update, and the TaskRead of the response
update_task_completion_reread(p) ==
    /\ op[p] = "complete" /\ pc[p] = "reread"
    /\ IF TaskRead_valid(store[task_id[p]])
       THEN Respond(p, 200, <<TaskRead(task_id[p], store[task_id[p]])>>)
       ELSE Respond(p, update_task_completion_except("ValueError"), <<>>)
    /\ UNCHANGED <<config, store, added, now, op, current_user_id, task_in,
                   ai_response, processed_data, task_id, completed_status>>

\* time passes between two readings of the clock
Tick ==
    /\ now < MaxClock
    /\ now' = now + 1
    /\ UNCHANGED <<config, store, added, op, pc, current_user_id, task_in,
                   ai_response, processed_data, task_id, completed_status, status,
                   response>>

\* ------------------------------------------------------------------ inputs
\* the request bodies and model outputs of the runs over all three endpoints
Bodies == [rawInput : {<<"x">>}, deadline : {NoDeadline, Utc(1)}]

Responses ==
    {Failure("api_error"),
     Json([processed_description |-> <<>>, deadline |-> [ts |-> 1, fmt |-> "Z"],
           tags |-> <<>>, priority_suggestion |-> Absent])}

CompletedBodies ==
    {[present |-> TRUE, value |-> TRUE], [present |-> TRUE, value |-> FALSE],
     NoCompleted}

\* ---------------------------------------------------- all three endpoints
Init == InitWith(BOOLEAN, {DefaultKeywords}, {<<>>})

Next ==
    \/ Tick
    \/ create_new_task(1, Users, Bodies, MaxTasks)
    \/ create_new_task_extract(1, Responses)
    \/ create_new_task_save(1, MaxTasks)
    \/ read_user_tasks(1, Users)
    \/ update_task_completion(1, Users, 1..(MaxTasks + 1), CompletedBodies)
    \/ update_task_completion_fetch(1)
    \/ update_task_completion_update(1)
    \/ update_task_completion_reread(1)

Spec == Init /\ [][Next]_vars

\* ------------------------------- the creation pipeline over its input space
RawInputs == {<<"x">>, <<"x", "U", "r">>, <<"u", "r", "x">>}

NormalizeBodies == [rawInput : RawInputs, deadline : {NoDeadline, Naive(1), Utc(1)}]

\* every way the extraction fails; every priority hint; every combination of
\* the other fields
NormalizeResponses ==
    {Failure(k) : k \in FailureKinds}
    \cup {Json([processed_description |-> <<"d">>,
                deadline |-> [ts |-> 2, fmt |-> "Z"],
                tags |-> <<"t">>,
                priority_suggestion |-> h]) :
            h \in {Absent, None, "", "High", "Medium", "Low", "Critical"}}
    \cup {Json([processed_description |-> d,
                deadline |-> [ts |-> 2, fmt |-> f],
                tags |-> t,
                priority_suggestion |-> "Low"]) :
            d \in {<<>>, <<"d">>}, f \in {"null", "Z", "naive", "garbage"},
            t \in {<<>>, <<"t">>}}

NormalizeInit == InitWith(BOOLEAN, KeywordConfigs, {<<>>})

NormalizeNext ==
    \/ create_new_task(1, {"u1"}, NormalizeBodies, MaxNormalized)
    \/ create_new_task_extract(1, NormalizeResponses)
    \/ create_new_task_save(1, MaxNormalized)

NormalizeSpec == NormalizeInit /\ [][NormalizeNext]_vars

\* ------------------------------------------------ creation and the listing
RankBodies == [rawInput : {<<"x">>}, deadline : {NoDeadline, Utc(1)}]

\* one task per priority tier, and the Low tier at two deadlines
RankResponses ==
    {Failure("api_error"),
     Json([processed_description |-> <<>>, deadline |-> [ts |-> 1, fmt |-> "Z"],
           tags |-> <<>>, priority_suggestion |-> "Low"])}
    \cup {Json([processed_description |-> <<>>,
                deadline |-> [ts |-> 0, fmt |-> "null"],
                tags |-> <<>>,
                priority_suggestion |-> h]) : h \in {"High", "Critical"}}

RankInit == InitWith({TRUE}, {DefaultKeywords}, {<<>>})

RankNext ==
    \/ Tick
    \/ create_new_task(1, {"u1"}, RankBodies, MaxRanked)
    \/ create_new_task_extract(1, RankResponses)
    \/ create_new_task_save(1, MaxRanked)
    \/ read_user_tasks(1, {"u1"})

RankSpec == RankInit /\ [][RankNext]_vars

\* ------------------------- listing a collection that holds an older document
LegacyInit == InitWith({TRUE}, {DefaultKeywords}, {<<LegacyDoc("u1")>>})

LegacyNext ==
    \/ Tick
    \/ create_new_task(1, {"u1"}, RankBodies, MaxTasks)
    \/ create_new_task_extract(1, RankResponses)
    \/ create_new_task_save(1, MaxTasks)
    \/ read_user_tasks(1, {"u1"})

LegacySpec == LegacyInit /\ [][LegacyNext]_vars

\* ------------------------ concurrent PUT /tasks/{task_id}/complete requests
\* the owner's requests on tasks that exist, on both request slots
RaceBodies == [rawInput : {<<"x">>}, deadline : {Utc(1)}]

RaceResponses == {Failure("api_error")}

RaceCompleted == {[present |-> TRUE, value |-> v] : v \in BOOLEAN}

RaceInit == InitWith({TRUE}, {DefaultKeywords}, {<<>>})

RaceNext ==
    \/ create_new_task(1, {"u1"}, RaceBodies, MaxRaced)
    \/ create_new_task_extract(1, RaceResponses)
    \/ create_new_task_save(1, MaxRaced)
    \/ \E p \in Procs :
        \/ update_task_completion(p, {"u1"}, DOMAIN store, RaceCompleted)
        \/ update_task_completion_fetch(p)
        \/ update_task_completion_update(p)
        \/ update_task_completion_reread(p)

RaceSpec == RaceInit /\ [][RaceNext]_vars

\* ================================================================== claims
\* the request slot p holds is served: its response is out
Served(p, endpoint) ==
    /\ op[p] = endpoint /\ pc[p] = "done"
    /\ current_user_id[p] \in Users

\* the document named by the single TaskRead of p's response
Persisted(p) == store[response[p][1].id]

\* p's CompleteTask request names an existing task of another user
NonOwner(p) ==
    /\ Served(p, "complete") /\ completed_status[p].present
    /\ task_id[p] \in DOMAIN store
    /\ store[task_id[p]].userId # current_user_id[p]

\* C1: CreateTask by an authenticated user with no explicit deadline and no
\* extracted deadline ends in 400.
C1_MissingDeadlineIs400 ==
    \A p \in Procs :
        (/\ Served(p, "create")
         /\ ~HasDeadline(task_in[p].deadline)
         /\ ~HasDeadline(processed_data[p].deadline))
        => status[p] = 400

\* C2: CompleteTask with a completed field by an authenticated user who does
\* not own the existing task ends in 403.
C2_NonOwnerIs403 == \A p \in Procs : NonOwner(p) => status[p] = 403

\* C3: CompleteTask with a completed field on an id absent from the store
\* ends in 404 for every authenticated caller (never 403).
C3_AbsentIs404 ==
    \A p \in Procs :
        (/\ Served(p, "complete") /\ completed_status[p].present
         /\ db
         /\ task_id[p] \notin DOMAIN store)
        => status[p] = 404

\* C4: no step of a CompleteTask request by a user who does not own the
\* targeted task changes the store.
C4_NonOwnerLeavesStore ==
    [][\A p \in Procs :
          (/\ op'[p] = "complete"
           /\ <<pc[p], status[p], response[p]>>' # <<pc[p], status[p], response[p]>>
           /\ task_id'[p] \in DOMAIN store
           /\ store[task_id'[p]].userId # current_user_id'[p])
          => store' = store]_vars

\* a non-owner asked for the other value of completed and was answered
C4_Witness ==
    \E p \in Procs :
        /\ NonOwner(p)
        /\ status[p] # 0
        /\ completed_status[p].value # store[task_id[p]].completed

\* C5: every document create_task added has a deadline, after any sequence
\* of requests.
C5_AddedHaveDeadline ==
    \A i \in added : i \in DOMAIN store /\ HasDeadline(store[i].deadline)

\* a CreateTask with no deadline from either source was answered, next to a
\* document that was added
C5_Witness ==
    \E p \in Procs :
        /\ Served(p, "create")
        /\ ~HasDeadline(task_in[p].deadline)
        /\ ~HasDeadline(processed_data[p].deadline)
        /\ ai_response[p].kind = "api_error"
        /\ added # {}

\* C6: the persisted deadline is the instant of the explicit deadline when
\* the request carries one, whatever was extracted, and the extracted one
\* only otherwise; it is stored timezone-aware.
C6_DeadlinePrecedence ==
    \A p \in Procs :
        (Served(p, "create") /\ status[p] = 201)
        => /\ Persisted(p).deadline.tz = "utc"
           /\ Persisted(p).deadline.ts =
                  IF HasDeadline(task_in[p].deadline)
                  THEN task_in[p].deadline.ts
                  ELSE processed_data[p].deadline.ts

\* a task created from a request whose two deadlines are both present and differ
C6_Witness ==
    \E p \in Procs :
        /\ Served(p, "create") /\ status[p] = 201
        /\ HasDeadline(task_in[p].deadline)
        /\ HasDeadline(processed_data[p].deadline)
        /\ task_in[p].deadline.ts # processed_data[p].deadline.ts

\* C7: when the raw text contains a configured keyword as a case-insensitive
\* substring (whatever the case of the text and of the keyword), the created
\* task has priority High.
C7_KeywordGivesHigh ==
    \A p \in Procs :
        (/\ Served(p, "create") /\ status[p] = 201
         /\ \E i \in DOMAIN high_priority_keywords :
                Contains(lower(high_priority_keywords[i]), lower(task_in[p].rawInput)))
        => Persisted(p).priority = "High"

\* C8: every task create_task added has a priority among High, Medium and
\* Low, for every extractor output; an absent hint gives Medium when no
\* keyword matches.
C8_PriorityInEnum ==
    /\ \A i \in added : store[i].priority \in {"High", "Medium", "Low"}
    /\ \A p \in Procs :
        (/\ Served(p, "create") /\ status[p] = 201
         /\ ai_response[p].kind = "json"
         /\ ai_response[p].data.priority_suggestion \in {Absent, None}
         /\ ~keyword_match(task_in[p].rawInput, high_priority_keywords))
        => Persisted(p).priority = "Medium"

\* a failed extraction left the fallback in p's slot and, given an explicit
\* deadline and the store, the request was answered 201 with that task
C9_Absorbed ==
    \A p \in Procs :
        (/\ op[p] = "create" /\ pc[p] \in {"save", "done"}
         /\ current_user_id[p] \in Users
         /\ ai_response[p].kind \in FailureKinds)
        => /\ ~processed_data[p].raised
           /\ processed_data[p].processed_description = task_in[p].rawInput
           /\ processed_data[p].priority_suggestion = "Medium"
           /\ ~HasDeadline(processed_data[p].deadline)
           /\ processed_data[p].tags = <<>>
           /\ (pc[p] = "done" /\ HasDeadline(task_in[p].deadline) /\ db)
              => /\ status[p] = 201
                 /\ Len(response[p]) = 1
                 /\ response[p][1].id \in added
                 /\ Persisted(p).processedDescription = task_in[p].rawInput
                 /\ Persisted(p).tags = <<>>
                 /\ Persisted(p).deadline.ts = task_in[p].deadline.ts

\* the step that answers such a request adds exactly one document
C9_AddsOne ==
    \A p \in Procs :
        (/\ op[p] = "create" /\ pc[p] = "save" /\ pc'[p] = "done"
         /\ ai_response[p].kind \in FailureKinds
         /\ HasDeadline(task_in[p].deadline) /\ db)
        => /\ Len(store') = Len(store) + 1
           /\ SubSeq(store', 1, Len(store)) = store

\* C9: a failed extraction yields the fallback (description = raw text,
\* hint Medium, no deadline, no tags) and, with an explicit deadline and the
\* store available, the request ends in 201 with one added task whose
\* description is the raw text, tags are empty and deadline is the explicit one.
C9_ExtractionFailureAbsorbed == []C9_Absorbed /\ [][C9_AddsOne]_vars

\* a task created although the model's JSON was rejected
C9_Witness ==
    \E p \in Procs :
        /\ Served(p, "create") /\ status[p] = 201
        /\ ai_response[p].kind = "bad_types"
        /\ Persisted(p).processedDescription = task_in[p].rawInput

\* the priority weight of the ranking
Weight(task) ==
    IF task.priority = "High" THEN 1
    ELSE IF task.priority = "Medium" THEN 2
    ELSE IF task.priority = "Low" THEN 3
    ELSE 99

\* a may stand right before b in the ranking
RankLeq(a, b) ==
    \/ Weight(a) < Weight(b)
    \/ /\ Weight(a) = Weight(b)
       /\ \/ a.deadline.ts < b.deadline.ts
          \/ /\ a.deadline.ts = b.deadline.ts
             /\ a.createdAt >= b.createdAt

C11_NoDeadlineListedLast ==
    \A p \in Procs :
        (Served(p, "list") /\ status[p] = 200)
        => /\ \A i \in {d \in DOMAIN store : store[d].userId = current_user_id[p]} :
                  \E k \in DOMAIN response[p] : response[p][k].id = i
           /\ \A j, k \in DOMAIN response[p] :
                  (/\ Weight(response[p][j]) = Weight(response[p][k])
                   /\ ~HasDeadline(response[p][j].deadline)
                   /\ HasDeadline(response[p][k].deadline))
                  => k < j

\* C12: once a task is stored, a step changes at most its completed flag and
\* its updatedAt: id, userId, originalInput, description, priority, tags,
\* deadline and createdAt stay, and no stored task disappears.
C12_OnlyCompletionChanges ==
    [][/\ Len(store') >= Len(store)
       /\ \A i \in DOMAIN store :
              \A f \in {"userId", "originalInput", "processedDescription",
                        "priority", "tags", "deadline", "createdAt"} :
                  store'[i][f] = store[i][f]]_vars

C12_Witness ==
    \E i \in DOMAIN store :
        /\ store[i].completed
        /\ store[i].updatedAt # store[i].createdAt

\* C14: while the store client is not initialized, every authenticated request
\* that reaches the store ends in 503: ListTasks, CompleteTask with a completed
\* field, and CreateTask whose deadline is resolvable.
C14_UnavailableIs503 ==
    ~db =>
        \A p \in Procs :
            /\ Served(p, "list") => status[p] = 503
            /\ (Served(p, "complete") /\ completed_status[p].present)
               => status[p] = 503
            /\ (/\ Served(p, "create")
                /\ \/ HasDeadline(task_in[p].deadline)
                   \/ HasDeadline(processed_data[p].deadline))
               => status[p] = 503

C14_Witness ==
    /\ ~db
    /\ \E p \in Procs :
        /\ Served(p, "create")
        /\ HasDeadline(processed_data[p].deadline)
        /\ ~HasDeadline(task_in[p].deadline)
        /\ status[p] = 503

\* C15: every task in the result of ListTasks for user u is owned by u.
C15_ListedAreOwned ==
    \A p \in Procs :
        (Served(p, "list") /\ status[p] = 200)
        => \A k \in DOMAIN response[p] :
               response[p][k].userId = current_user_id[p]

C15_Witness ==
    \E p \in Procs :
        /\ Served(p, "list") /\ status[p] = 200
        /\ response[p] # <<>>
        /\ \E i \in DOMAIN store : store[i].userId # current_user_id[p]

\* p takes the step that runs task_ref.update
UpdateStep(p) ==
    /\ op[p] = "complete" /\ pc[p] = "update" /\ pc'[p] = "reread"

\* C13: two CompleteTask requests of the owner on the same existing id both end
\* in 200, and the stored completed flag is the value of the update that ran
\* last: each update writes its request's value, and nothing else changes it.
C13_BothSucceed ==
    \A p \in Procs :
        Served(p, "complete")
        => /\ status[p] = 200
           /\ \A q \in Procs \ {p} :
                  (Served(q, "complete") /\ task_id[q] = task_id[p])
                  => /\ task_id[p] \in DOMAIN store
                     /\ store[task_id[p]].completed
                            \in {completed_status[p].value, completed_status[q].value}

C13_LastUpdateWins ==
    /\ \A p \in Procs :
           UpdateStep(p)
           => store'[task_id[p]].completed = completed_status[p].value
    /\ \A i \in DOMAIN store :
           store'[i].completed # store[i].completed
           => \E p \in Procs : UpdateStep(p) /\ task_id[p] = i

C13_ConcurrentCompletions == []C13_BothSucceed /\ [][C13_LastUpdateWins]_vars

\* both requests were past their fetch before either response went out, and
\* they asked for different values
C13_Witness ==
    /\ Served(1, "complete") /\ Served(2, "complete")
    /\ task_id[1] = task_id[2]
    /\ completed_status[1].value # completed_status[2].value
    /\ status[1] = 200 /\ status[2] = 200
    /\ response[1][1].completed # completed_status[1].value

\* C16 as stated: the task in a 200 response of CompleteTask has completed
\* equal to the value the request asked for.
C16_ReturnsRequested ==
    \A p \in Procs :
        (Served(p, "complete") /\ status[p] = 200)
        => response[p][1].completed = completed_status[p].value

\* p takes the step that runs the second task_ref.get and answers
RereadStep(p) ==
    /\ op[p] = "complete" /\ pc[p] = "reread" /\ pc'[p] = "done"

\* C16: the task in a 200 response of CompleteTask has completed equal to the
\* stored value at the re-read.  That is the request's own value, written by
\* its update, unless the update of another CompleteTask request on the same
\* id ran between this request's update and its re-read.
C16_ReturnsStored ==
    [][\A p \in Procs :
          /\ UpdateStep(p)
             => store'[task_id[p]].completed = completed_status[p].value
          /\ (/\ op[p] = "complete" /\ pc[p] = "reread" /\ pc'[p] = "reread"
              /\ store'[task_id[p]].completed # store[task_id[p]].completed)
             => \E q \in Procs \ {p} : UpdateStep(q) /\ task_id[q] = task_id[p]
          /\ (RereadStep(p) /\ status'[p] = 200)
             => response'[p][1].completed = store[task_id[p]].completed]_vars

\* a request answered with the value another request wrote
C16_Witness ==
    \E p \in Procs :
        /\ Served(p, "complete") /\ status[p] = 200
        /\ response[p][1].completed # completed_status[p].value
        /\ \E q \in Procs \ {p} :
               /\ op[q] = "complete" /\ task_id[q] = task_id[p]
               /\ completed_status[q].value = response[p][1].completed

====
